---- MODULE Spec2Model ----
(***************************************************************************)
(* Model of unifex::transform (include/unifex/transform.hpp).              *)
(*                                                                         *)
(* A stage tfx::sender_<Predecessor, Func>::type holds pred_ and func_.    *)
(* connect() builds a tfx::receiver_<Receiver, Func>::type wrapper holding *)
(* func_ and receiver_ and connects the predecessor to it.  The            *)
(* predecessor later calls exactly one of set_value / set_error / set_done *)
(* on the wrapper, which calls into the downstream receiver.               *)
(*                                                                         *)
(* Every call made while a wrapper entry point runs is appended to the     *)
(* operation's trace, in program order.                                    *)
(***************************************************************************)
EXTENDS Integers, Sequences, FiniteSets

VARIABLES stage, types, ops, answer, terminated

vars == <<stage, types, ops, answer, terminated>>

----------------------------------------------------------------------------
(* Bounds *)

\* number of operations connected from the stage
MaxOps == 2
\* number of values in a predecessor's value signal
MaxArgs == 2

----------------------------------------------------------------------------
(* Values of the model *)

RECURSIVE Sum(_)
Sum(s) == IF s = <<>> THEN 0 ELSE Head(s) + Sum(Tail(s))

Range(s) == {s[i] : i \in 1..Len(s)}

IsDupFree(s) == \A i, j \in 1..Len(s) : i # j => s[i] # s[j]

\* value payloads (Values&&... values): zero or more arguments, each the
\* integer 1
Payloads == {[i \in 1..n |-> 1] : n \in 0..MaxArgs}

\* error shapes a predecessor may declare; exception_ptr is the shape of
\* std::current_exception()
Shapes == {"error_code", "exception_ptr"}

Err(shape, what, at) == [shape |-> shape, what |-> what, at |-> at]

NoErr == Err("none", "none", 0)

\* the error object a predecessor sends for each shape it declares
UpstreamError(shape) ==
  IF shape = "error_code" THEN Err(shape, "NetworkTimeout", 0)
  ELSE Err(shape, "UpstreamFailure", 0)

\* Func: whether its result is void, and whether its invocation is noexcept.
\* A Func that is not noexcept raises on payloads whose sum is odd.
Funcs == [void : BOOLEAN, nothrow : BOOLEAN]

FuncFails(f, P) == ~f.nothrow /\ Sum(P) % 2 = 1

\* the result of a non-void Func on P
FuncResult(f, P) == 2 * Sum(P) + Len(P)

\* the object Func raises on P
FuncThrown(f, P) == Err("exception_ptr", "TransformFailure", Sum(P))

\* the object a downstream receiver raises from its set_value
ReceiverThrown == Err("exception_ptr", "ReceiverFailure", 0)

ShapeOrder == <<"error_code", "exception_ptr">>

\* predecessors: the list of error shapes each declares, any subset of Shapes
Preds == {[errs |-> SelectSeq(ShapeOrder, LAMBDA x : x \in S)] : S \in SUBSET Shapes}

\* downstream receivers: identity, and whether set_value raises
Receivers(i) == [id : {i}, throwsOnValue : BOOLEAN]

MovedFrom == [moved |-> TRUE]

NoStage == [none |-> TRUE]

NoTypes == [none |-> TRUE]

\* no query has been answered
NoAnswer == [none |-> TRUE]

----------------------------------------------------------------------------
(* Trace events *)

Event(ev, vals, err, threw) == [ev |-> ev, vals |-> vals, err |-> err, threw |-> threw]

\* std::invoke((Func&&) func_, values...) is entered
EvInvoke(P) == Event("invoke", P, NoErr, FALSE)
\* Func returned; vals is <<result>>, or <<>> for a void result
EvReturned(vals) == Event("returned", vals, NoErr, FALSE)
\* Func raised e
EvRaised(e) == Event("raised", <<>>, e, TRUE)
\* unifex::set_value(receiver_, vals...); threw: the receiver raised
EvSetValue(vals, threw) == Event("set_value", vals, NoErr, threw)
\* unifex::set_error(receiver_, e)
EvSetError(e) == Event("set_error", <<>>, e, FALSE)
\* unifex::set_done(receiver_)
EvSetDone == Event("set_done", <<>>, NoErr, FALSE)

DownstreamEvs == {"set_value", "set_error", "set_done"}

RECURSIVE Filter(_, _)
Filter(s, kinds) ==
  IF s = <<>> THEN <<>>
  ELSE IF Head(s).ev \in kinds THEN <<Head(s)>> \o Filter(Tail(s), kinds)
  ELSE Filter(Tail(s), kinds)

\* what the downstream receiver of an operation has been called with
Downstream(op) == Filter(op.trace, DownstreamEvs)

\* the invocations of Func made by an operation
Invocations(op) == Filter(op.trace, {"invoke"})

----------------------------------------------------------------------------
(* tfx::receiver_<Receiver, Func>::type *)

\* the wrapper built by connect: func_ and receiver_, connected to the
\* predecessor pred; trace and ret record what its entry point did and how
\* it returned to the predecessor ("normal", or "terminate" when an
\* exception reached the noexcept boundary of the entry point)
Wrapper(f, r, pred) ==
  [func_ |-> f, receiver_ |-> r, pred |-> pred, phase |-> "connected",
   sig |-> [kind |-> "none", vals |-> <<>>, err |-> NoErr],
   trace |-> <<>>, ret |-> "none"]

Called(w, evs, ret) == [w EXCEPT !.trace = @ \o evs, !.ret = ret]

\* void result, noexcept Func: no try block
set_value_void_unguarded(w, P) ==
  IF FuncFails(w.func_, P)
  THEN Called(w, <<EvInvoke(P), EvRaised(FuncThrown(w.func_, P))>>, "terminate")
  ELSE IF w.receiver_.throwsOnValue
  THEN Called(w, <<EvInvoke(P), EvReturned(<<>>), EvSetValue(<<>>, TRUE)>>, "terminate")
  ELSE Called(w, <<EvInvoke(P), EvReturned(<<>>), EvSetValue(<<>>, FALSE)>>, "normal")

\* set_value_void_guarded with a catch block that invokes Func a second time
\* before giving up
set_value_void_guarded_retry(w, P) ==
  IF FuncFails(w.func_, P)
  THEN Called(w, <<EvInvoke(P), EvRaised(FuncThrown(w.func_, P)),
                   EvInvoke(P), EvRaised(FuncThrown(w.func_, P)),
                   EvSetError(FuncThrown(w.func_, P))>>, "normal")
  ELSE IF w.receiver_.throwsOnValue
  THEN Called(w, <<EvInvoke(P), EvReturned(<<>>), EvSetValue(<<>>, TRUE),
                   EvSetError(ReceiverThrown)>>, "normal")
  ELSE Called(w, <<EvInvoke(P), EvReturned(<<>>), EvSetValue(<<>>, FALSE)>>, "normal")

\* void result, Func may raise: Func and the downstream set_value are both
\* inside the try block, catch (...) calls the downstream set_error
set_value_void_guarded(w, P) ==
  IF FuncFails(w.func_, P)
  THEN Called(w, <<EvInvoke(P), EvRaised(FuncThrown(w.func_, P)),
                   EvSetError(FuncThrown(w.func_, P))>>, "normal")
  ELSE IF w.receiver_.throwsOnValue
  THEN Called(w, <<EvInvoke(P), EvReturned(<<>>), EvSetValue(<<>>, TRUE),
                   EvSetError(ReceiverThrown)>>, "normal")
  ELSE Called(w, <<EvInvoke(P), EvReturned(<<>>), EvSetValue(<<>>, FALSE)>>, "normal")

\* set_value_result_unguarded that signals downstream with the incoming
\* values first and invokes Func afterwards
set_value_result_unguarded_early(w, P) ==
  LET res == <<FuncResult(w.func_, P)>> IN
  IF w.receiver_.throwsOnValue
  THEN Called(w, <<EvSetValue(res, TRUE)>>, "terminate")
  ELSE Called(w, <<EvSetValue(res, FALSE), EvInvoke(P), EvReturned(res)>>, "normal")

\* non-void result, noexcept Func: no try block
set_value_result_unguarded(w, P) ==
  IF FuncFails(w.func_, P)
  THEN Called(w, <<EvInvoke(P), EvRaised(FuncThrown(w.func_, P))>>, "terminate")
  ELSE LET res == <<FuncResult(w.func_, P)>> IN
       IF w.receiver_.throwsOnValue
       THEN Called(w, <<EvInvoke(P), EvReturned(res), EvSetValue(res, TRUE)>>, "terminate")
       ELSE Called(w, <<EvInvoke(P), EvReturned(res), EvSetValue(res, FALSE)>>, "normal")

\* set_value_result_guarded with an empty catch block
set_value_result_guarded_swallow(w, P) ==
  IF FuncFails(w.func_, P)
  THEN Called(w, <<EvInvoke(P), EvRaised(FuncThrown(w.func_, P))>>, "normal")
  ELSE LET res == <<FuncResult(w.func_, P)>> IN
       IF w.receiver_.throwsOnValue
       THEN Called(w, <<EvInvoke(P), EvReturned(res), EvSetValue(res, TRUE)>>, "normal")
       ELSE Called(w, <<EvInvoke(P), EvReturned(res), EvSetValue(res, FALSE)>>, "normal")

\* non-void result, Func may raise: try block around both calls
set_value_result_guarded(w, P) ==
  IF FuncFails(w.func_, P)
  THEN Called(w, <<EvInvoke(P), EvRaised(FuncThrown(w.func_, P)),
                   EvSetError(FuncThrown(w.func_, P))>>, "normal")
  ELSE LET res == <<FuncResult(w.func_, P)>> IN
       IF w.receiver_.throwsOnValue
       THEN Called(w, <<EvInvoke(P), EvReturned(res), EvSetValue(res, TRUE),
                        EvSetError(ReceiverThrown)>>, "normal")
       ELSE Called(w, <<EvInvoke(P), EvReturned(res), EvSetValue(res, FALSE)>>, "normal")

\* the path without a try block, for either result type
set_value_unguarded(w, P) ==
  IF w.func_.void THEN set_value_void_unguarded(w, P)
  ELSE set_value_result_unguarded(w, P)

\* the path with the try block, for either result type
set_value_guarded(w, P) ==
  IF w.func_.void THEN set_value_void_guarded(w, P)
  ELSE set_value_result_guarded(w, P)

\* set_value without the try block on any path
set_value_never_guarded(w, P) == set_value_unguarded(w, P)

\* set_value(Values&&...) && noexcept: if constexpr on noexcept(std::invoke(...))
set_value(w, P) ==
  IF w.func_.nothrow THEN set_value_unguarded(w, P) ELSE set_value_guarded(w, P)

\* set_error that hands downstream a std::exception_ptr made from the error
set_error_rewrapped(w, E) ==
  Called(w, <<EvSetError(Err("exception_ptr", E.what, E.at))>>, "normal")

\* set_error that runs the error through Func as if it were an empty value
set_error_through_func(w, E) == set_value(w, <<>>)

\* set_error(Error&&) && noexcept
set_error(w, E) == Called(w, <<EvSetError(E)>>, "normal")

\* set_done that reports the cancellation as an error
set_done_as_error(w) ==
  Called(w, <<EvSetError(Err("exception_ptr", "Cancelled", 0))>>, "normal")

\* set_done that notes the cancellation and returns, leaving the downstream
\* signal for later
set_done_queued(w) == Called(w, <<>>, "normal")

\* set_done() && noexcept
set_done(w) == Called(w, <<EvSetDone>>, "normal")

----------------------------------------------------------------------------
(* tfx::sender_<Predecessor, Func>::type and unifex::transform *)

RECURSIVE AppendUnique(_, _)
AppendUnique(acc, s) ==
  IF s = <<>> THEN acc
  ELSE AppendUnique(IF Head(s) \in Range(acc) THEN acc ELSE Append(acc, Head(s)), Tail(s))

\* concat_type_lists_unique_t: the lists concatenated, each type kept once
concat_type_lists_unique(a, b) == AppendUnique(AppendUnique(<<>>, a), b)

\* error_types by plain concatenation
error_types_appended(pred) == pred.errs \o <<"exception_ptr">>

\* error_types: the predecessor's error types and std::exception_ptr
error_types(pred) == concat_type_lists_unique(pred.errs, <<"exception_ptr">>)

\* transform(predecessor, func): the stage holding both
transform(pred, func) == [pred_ |-> pred, func_ |-> func]

\* connect(Receiver&&) &&: pred_ and func_ are forwarded (moved) out of the stage
connect_rvalue_eager(s, r) ==
  [stage |-> [pred_ |-> MovedFrom, func_ |-> MovedFrom],
   op |-> Called(Wrapper(s.func_, r, s.pred_), <<EvInvoke(<<>>)>>, "normal")]

connect_rvalue(s, r) ==
  [stage |-> [pred_ |-> MovedFrom, func_ |-> MovedFrom],
   op |-> Wrapper(s.func_, r, s.pred_)]

\* connect(Receiver&&) & that moves func_ out of the stage
connect_lvalue_moving(s, r) ==
  [stage |-> [pred_ |-> s.pred_, func_ |-> MovedFrom],
   op |-> Wrapper(s.func_, r, s.pred_)]

\* connect(Receiver&&) &: pred_ by reference, func_ copied
connect_lvalue(s, r) == [stage |-> s, op |-> Wrapper(s.func_, r, s.pred_)]

\* connect(Receiver&&) const & that forwards pred_ and func_ as the && overload does
connect_const_consuming(s, r) ==
  [stage |-> [pred_ |-> MovedFrom, func_ |-> MovedFrom],
   op |-> Wrapper(s.func_, r, s.pred_)]

\* connect(Receiver&&) const &: pred_ by const reference, func_ copied
connect_const(s, r) == [stage |-> s, op |-> Wrapper(s.func_, r, s.pred_)]

Connectable(s) == s # NoStage /\ s.pred_ # MovedFrom /\ s.func_ # MovedFrom

----------------------------------------------------------------------------
(* The state machine *)

Init ==
  /\ stage = NoStage
  /\ types = NoTypes
  /\ ops = <<>>
  /\ answer = NoAnswer
  /\ terminated = FALSE

Transform(pred, func) ==
  /\ ~terminated
  /\ stage = NoStage
  /\ stage' = transform(pred, func)
  /\ types' = [error_types |-> error_types(pred)]
  /\ UNCHANGED <<ops, answer, terminated>>

Connected(c) ==
  /\ stage' = c.stage
  /\ ops' = Append(ops, c.op)
  /\ UNCHANGED <<types, answer, terminated>>

CanConnect == ~terminated /\ Connectable(stage) /\ Len(ops) < MaxOps

ConnectRvalue(r) == CanConnect /\ Connected(connect_rvalue(stage, r))

ConnectLvalue(r) == CanConnect /\ Connected(connect_lvalue(stage, r))

ConnectConst(r) == CanConnect /\ Connected(connect_const(stage, r))

\* start(op): the predecessor operation is started
Start(i) ==
  /\ ~terminated
  /\ ops[i].phase = "connected"
  /\ ops' = [ops EXCEPT ![i].phase = "started"]
  /\ UNCHANGED <<stage, types, answer, terminated>>

\* the wrapper's entry point has run: the wrapper is consumed
Completed(i, w, sig) ==
  /\ ops' = [ops EXCEPT ![i] = [w EXCEPT !.phase = "completed", !.sig = sig]]
  /\ terminated' = (w.ret = "terminate")
  /\ UNCHANGED <<stage, types, answer>>

CanDeliver(i) == ~terminated /\ ops[i].phase = "started"

\* the predecessor calls set_value(std::move(wrapper), P...)
PredSetValue(i, P) ==
  /\ CanDeliver(i)
  /\ Completed(i, set_value(ops[i], P), [kind |-> "value", vals |-> P, err |-> NoErr])

\* the predecessor calls set_error(std::move(wrapper), E), E of a shape it declares
PredSetError(i, E) ==
  /\ CanDeliver(i)
  /\ E.shape \in Range(ops[i].pred.errs)
  /\ Completed(i, set_error(ops[i], E), [kind |-> "error", vals |-> <<>>, err |-> E])

\* the predecessor calls set_done(std::move(wrapper))
PredSetDone(i) ==
  /\ CanDeliver(i)
  /\ Completed(i, set_done(ops[i]), [kind |-> "done", vals |-> <<>>, err |-> NoErr])

Next ==
  \/ \E pred \in Preds, func \in Funcs : Transform(pred, func)
  \/ \E r \in Receivers(Len(ops) + 1) : ConnectRvalue(r)
  \/ \E r \in Receivers(Len(ops) + 1) : ConnectLvalue(r)
  \/ \E r \in Receivers(Len(ops) + 1) : ConnectConst(r)
  \/ \E i \in 1..Len(ops) : Start(i)
  \/ \E i \in 1..Len(ops), P \in Payloads : PredSetValue(i, P)
  \/ \E i \in 1..Len(ops), s \in Shapes : PredSetError(i, UpstreamError(s))
  \/ \E i \in 1..Len(ops) : PredSetDone(i)

Spec == Init /\ [][Next]_vars

----------------------------------------------------------------------------
(* Properties *)

CompletedOps == {i \in 1..Len(ops) : ops[i].phase = "completed"}

\* the completed operations the predecessor completed with this kind of signal
CompletedWith(kind) == {i \in CompletedOps : ops[i].sig.kind = kind}

\* the value payload Func's result gives downstream: none for a void result
ResultVals(f, P) == IF f.void THEN <<>> ELSE <<FuncResult(f, P)>>

\* C1: every operation the predecessor has completed with one signal has
\* had exactly one call made on its downstream receiver, whatever Func did.
C1_SingleCompletion ==
  \A i \in CompletedOps : Len(Downstream(ops[i])) = 1

\* C2: when the predecessor delivered value P and Func raised on P, the
\* downstream receiver was called exactly once, with set_error carrying the
\* object Func raised; it got no set_value and no set_done.
C2_FuncFailureBecomesError ==
  \A i \in CompletedWith("value") :
    FuncFails(ops[i].func_, ops[i].sig.vals) =>
      Downstream(ops[i]) = <<EvSetError(FuncThrown(ops[i].func_, ops[i].sig.vals))>>

C2_Witness ==
  \E i \in CompletedWith("value") :
    /\ FuncFails(ops[i].func_, ops[i].sig.vals)
    /\ \E k \in 1..Len(ops[i].trace) : ops[i].trace[k].ev = "raised"

\* C3: when the predecessor delivered value P and Func did not fail on P,
\* downstream got a set_value carrying Func(P) (no payload for a void Func)
\* and got neither set_error nor set_done.
C3_ValueIsTransformed ==
  \A i \in CompletedWith("value") :
    ~FuncFails(ops[i].func_, ops[i].sig.vals) =>
      /\ \E k \in 1..Len(ops[i].trace) :
           /\ ops[i].trace[k].ev = "set_value"
           /\ ops[i].trace[k].vals = ResultVals(ops[i].func_, ops[i].sig.vals)
      /\ Filter(ops[i].trace, {"set_error", "set_done"}) = <<>>

\* C4: when the predecessor delivered error E, the only call the wrapper
\* made is the downstream set_error with the same E; Func was not invoked.
C4_ErrorForwarded ==
  \A i \in CompletedWith("error") :
    /\ Downstream(ops[i]) = <<EvSetError(ops[i].sig.err)>>
    /\ Invocations(ops[i]) = <<>>

C4_Witness ==
  \E i \in CompletedWith("error") :
    /\ ops[i].sig.err = UpstreamError("exception_ptr")
    /\ ~ops[i].func_.nothrow

\* C5: when the predecessor delivered done, the only call the wrapper made
\* is the downstream set_done: no set_value, no set_error, no invocation of
\* Func, and no other call (such as a stop-token query).
C5_DoneForwarded ==
  \A i \in CompletedWith("done") : ops[i].trace = <<EvSetDone>>

C5_Witness ==
  \E i \in CompletedWith("done") : ops[i].ret = "normal"

\* C6: over the life of an operation Func is invoked at most once; it has
\* not been invoked before the predecessor's signal, and once the operation
\* is completed it has been invoked exactly once iff the signal was a value.
C6_FuncInvokedOnceIffValue ==
  \A i \in 1..Len(ops) :
    /\ Len(Invocations(ops[i])) <= 1
    /\ ops[i].phase # "completed" => Invocations(ops[i]) = <<>>
    /\ ops[i].phase = "completed" =>
         (Len(Invocations(ops[i])) = 1 <=> ops[i].sig.kind = "value")

C6_Witness ==
  /\ \E i \in CompletedWith("value") :
       /\ FuncFails(ops[i].func_, ops[i].sig.vals)
       /\ Len(Invocations(ops[i])) = 1
  /\ \E j \in CompletedOps : ops[j].sig.kind # "value" /\ Invocations(ops[j]) = <<>>

\* the wrapper of an operation as connect built it
Fresh(op) == Wrapper(op.func_, op.receiver_, op.pred)

\* C7: for a noexcept Func, what downstream and the predecessor see of the
\* path the code takes (no try block) is what they would see of the path
\* with the try block, for every value and every downstream receiver.
C7_GuardElisionEquivalent ==
  \A i \in CompletedWith("value") :
    ops[i].func_.nothrow =>
      LET g == set_value_guarded(Fresh(ops[i]), ops[i].sig.vals) IN
        /\ Downstream(ops[i]) = Downstream(g)
        /\ ops[i].ret = g.ret

\* what the wrapper w does with the predecessor's signal sig
Deliver(w, sig) ==
  IF sig.kind = "value" THEN set_value(w, sig.vals)
  ELSE IF sig.kind = "error" THEN set_error(w, sig.err)
  ELSE set_done(w)

C9_FuncFailureDoesNotEscape ==
  \A i \in CompletedWith("value") :
    (\E k \in 1..Len(ops[i].trace) : ops[i].trace[k].ev = "raised") =>
      /\ ops[i].ret = "normal"
      /\ ops[i].trace[Len(ops[i].trace)].ev = "set_error"
      /\ ~terminated

C9_Witness ==
  \E i \in CompletedWith("value") :
    /\ ops[i].func_.void
    /\ \E k \in 1..Len(ops[i].trace) :
         ops[i].trace[k] = EvRaised(FuncThrown(ops[i].func_, ops[i].sig.vals))
    /\ ops[i].ret = "normal"

\* the error shapes the predecessor of the stage declares, while an object
\* still holds the predecessor
DeclaredByPred ==
  IF Connectable(stage) THEN {stage.pred_.errs}
  ELSE {ops[i].pred.errs : i \in 1..Len(ops)}

\* C10: the stage's error_types has no duplicates and holds exactly the
\* predecessor's error shapes and exception_ptr, so exception_ptr is in it
\* exactly once, whatever Func and the predecessor are.
C10_ErrorTypesUnion ==
  types # NoTypes =>
    /\ IsDupFree(types.error_types)
    /\ \A errs \in DeclaredByPred :
         Range(types.error_types) = Range(errs) \cup {"exception_ptr"}
    /\ Cardinality({k \in 1..Len(types.error_types) :
                     types.error_types[k] = "exception_ptr"}) = 1

\* a noexcept Func on a predecessor that already declares exception_ptr
C10_Witness ==
  /\ types # NoTypes
  /\ Connectable(stage)
  /\ stage.func_.nothrow
  /\ "exception_ptr" \in Range(stage.pred_.errs)
  /\ Len(types.error_types) = Len(stage.pred_.errs)

----------------------------------------------------------------------------
(* The stage's declared value types and its blocking classification *)

\* number of value alternatives a predecessor declares
MaxAlts == 2

\* argument types of a predecessor's value signals
ArgTypes == {"int", "long"}

\* one value alternative: the types of its arguments
ValueAlternatives == UNION {[1..n -> ArgTypes] : n \in 0..MaxArgs}

\* Predecessor::value_types: a list of distinct alternatives
ValueLists ==
  {s \in UNION {[1..n -> ValueAlternatives] : n \in 0..MaxAlts} : IsDupFree(s)}

\* blocking_kind
BlockingKinds == {"maybe", "never", "always", "always_inline"}

\* predecessors with their declared value types, error types and blocking kind
TypedPreds == [errs : {p.errs : p \in Preds}, vals : ValueLists, blocking : BlockingKinds]

\* std::invoke_result_t<Func, Args...>: void for a void Func; otherwise the
\* common type of long and the argument types
invoke_result(f, args) ==
  IF f.void THEN "void" ELSE IF "long" \in Range(args) THEN "long" ELSE "int"

\* result_overload without the specialisation for void
result_overload_no_void(R) == <<R>>

\* detail::result_overload<Result>::type: type_list<Result>, or type_list<>
\* when Result is void
result_overload(R) == IF R = "void" THEN <<>> ELSE <<R>>

\* result<Args...>: type_list<result_overload<invoke_result_t<Func, Args...>>::type>
result(f, args) == <<result_overload(invoke_result(f, args))>>

\* concat_type_lists_unique_t of any number of lists
RECURSIVE concat_all_unique(_)
concat_all_unique(lists) ==
  IF lists = <<>> THEN <<>>
  ELSE concat_type_lists_unique(concat_all_unique(SubSeq(lists, 1, Len(lists) - 1)),
                                lists[Len(lists)])

\* value_types: Predecessor::value_types<concat_type_lists_unique_t, result>
value_types(pred, f) ==
  concat_all_unique([k \in 1..Len(pred.vals) |-> result(f, pred.vals[k])])

\* blocking(sender): the classification a predecessor reports
blocking(pred) == pred.blocking

\* tag_invoke(tag_t<blocking>, sender) answering with a fixed classification
tag_invoke_blocking_maybe(s) == "maybe"

\* tag_invoke(tag_t<blocking>, const sender&): blocking(sender.pred_)
tag_invoke_blocking(s) == blocking(s.pred_)

\* transform(predecessor, func) with the stage's declared types
Instantiate(pred, func) ==
  /\ ~terminated
  /\ stage = NoStage
  /\ stage' = transform(pred, func)
  /\ types' = [error_types |-> error_types(pred), value_types |-> value_types(pred, func)]
  /\ UNCHANGED <<ops, answer, terminated>>

\* blocking(stage)
QueryBlocking ==
  /\ ~terminated
  /\ Connectable(stage)
  /\ answer' = [query |-> "blocking", op |-> 0, result |-> tag_invoke_blocking(stage)]
  /\ UNCHANGED <<stage, types, ops, terminated>>

NextTypes ==
  \/ stage = NoStage /\ \E pred \in TypedPreds, func \in Funcs : Instantiate(pred, func)
  \/ QueryBlocking

SpecTypes == Init /\ [][NextTypes]_vars

\* C11: the stage's value_types holds, once each, the shapes obtained by
\* mapping every value alternative of the predecessor through Func's result
\* type: the empty shape for void, the one-element shape (R) otherwise.
C11_ValueTypesMapped ==
  (types # NoTypes /\ Connectable(stage)) =>
    /\ IsDupFree(types.value_types)
    /\ Range(types.value_types) =
         {IF invoke_result(stage.func_, alt) = "void" THEN <<>>
          ELSE <<invoke_result(stage.func_, alt)>> : alt \in Range(stage.pred_.vals)}

\* two alternatives of the predecessor that a void Func maps to the one
\* empty shape
C11_Witness ==
  /\ types # NoTypes
  /\ Connectable(stage)
  /\ stage.func_.void
  /\ Len(stage.pred_.vals) = 2
  /\ types.value_types = << <<>> >>

\* C12: the blocking query on the stage answers with the classification of
\* its predecessor.
C12_BlockingIsPredecessors ==
  (answer # NoAnswer /\ answer.query = "blocking") =>
    answer.result = stage.pred_.blocking

C12_Witness ==
  /\ answer # NoAnswer
  /\ answer.query = "blocking"
  /\ answer.result = "always_inline"

----------------------------------------------------------------------------
(* A stage the caller only connects read-only, or consumes *)

NextConst ==
  \/ \E pred \in Preds, func \in Funcs : Transform(pred, func)
  \/ \E r \in Receivers(Len(ops) + 1) : ConnectConst(r)
  \/ \E r \in Receivers(Len(ops) + 1) : ConnectRvalue(r)
  \/ \E i \in 1..Len(ops) : Start(i)
  \/ \E i \in 1..Len(ops), P \in Payloads : PredSetValue(i, P)
  \/ \E i \in 1..Len(ops), sh \in Shapes : PredSetError(i, UpstreamError(sh))
  \/ \E i \in 1..Len(ops) : PredSetDone(i)

SpecConst == Init /\ [][NextConst]_vars

\* C13: the const & connect leaves the stage's pred_ and func_ as they
\* were, so a connect made afterwards builds the wrapper it would have built
\* before.
C13_ConstConnectLeavesStage ==
  [][ (\E r \in Receivers(Len(ops) + 1) : ConnectConst(r)) =>
        /\ stage'.pred_ = stage.pred_
        /\ stage'.func_ = stage.func_
        /\ Connectable(stage')
        /\ \A r2 \in Receivers(Len(ops') + 1) :
             /\ connect_const(stage', r2).op = Wrapper(stage.func_, r2, stage.pred_)
             /\ connect_rvalue(stage', r2).op = Wrapper(stage.func_, r2, stage.pred_)
    ]_vars

\* after a const & connect whose operation has completed, a second connect
\* on the same stage built the wrapper of the original Func
C13_Witness ==
  /\ Len(ops) = 2
  /\ ops[1].phase = "completed"
  /\ Invocations(ops[1]) # <<>>
  /\ \E r \in Receivers(2) : ops[2] = Wrapper(ops[1].func_, r, ops[1].pred)

----------------------------------------------------------------------------
(* Queries on the wrapper *)

\* customisation points that are not receiver CPOs
CPOs == {"get_stop_token", "get_scheduler"}

\* cpo(receiver): what a downstream receiver answers, its own stop token or
\* scheduler
receiver_query(cpo, r) == <<cpo, r.id>>

\* visit_continuations(receiver, visit): what the visitor is invoked on.
\* Downstream receivers with an odd id have one continuation of their own
\* (id 0); the others have none
receiver_continuations(r) == IF r.id % 2 = 1 THEN <<0>> ELSE <<>>

\* tag_invoke(CPO, const receiver&) answering for the wrapper itself
tag_invoke_cpo_own(cpo, w) == [w |-> w, result |-> <<cpo, 0>>]

\* tag_invoke(CPO, const receiver& r): cpo(std::as_const(r.receiver_));
\* w is the wrapper after the call
tag_invoke_cpo(cpo, w) == [w |-> w, result |-> receiver_query(cpo, w.receiver_)]

\* tag_invoke(tag_t<visit_continuations>, const receiver& r, visit):
\* std::invoke(visit, r.receiver_); result lists what visit was invoked on
tag_invoke_visit_continuations(w) == [w |-> w, result |-> <<w.receiver_.id>>]

Answered(i, query, q) ==
  /\ answer' = [query |-> query, op |-> i, result |-> q.result]
  /\ ops' = [ops EXCEPT ![i] = q.w]
  /\ UNCHANGED <<stage, types, terminated>>

\* the wrapper is alive until its entry point has run
CanQuery(i) == ~terminated /\ ops[i].phase \in {"connected", "started"}

Query(i, cpo) == CanQuery(i) /\ Answered(i, cpo, tag_invoke_cpo(cpo, ops[i]))

Visit(i) ==
  CanQuery(i) /\ Answered(i, "visit_continuations", tag_invoke_visit_continuations(ops[i]))

NextQuery ==
  \/ \E pred \in Preds, func \in Funcs : Transform(pred, func)
  \/ \E r \in Receivers(Len(ops) + 1) : ConnectLvalue(r)
  \/ \E r \in Receivers(Len(ops) + 1) : ConnectRvalue(r)
  \/ \E i \in 1..Len(ops) : Start(i)
  \/ \E i \in 1..Len(ops) : PredSetDone(i)
  \/ \E i \in 1..Len(ops), cpo \in CPOs : Query(i, cpo)
  \/ \E i \in 1..Len(ops) : Visit(i)

SpecQuery == Init /\ [][NextQuery]_vars

\* C14 as claimed: every query answered by the wrapper, visit_continuations
\* included, has the result the same query has on the downstream receiver.
C14_SameAsOnReceiver ==
  (answer # NoAnswer /\ answer.op > 0) =>
    IF answer.query = "visit_continuations"
    THEN answer.result = receiver_continuations(ops[answer.op].receiver_)
    ELSE answer.result = receiver_query(answer.query, ops[answer.op].receiver_)

\* C14 amended: a non-receiver CPO on the wrapper has the result it has on
\* the downstream receiver; visit_continuations on the wrapper invokes the
\* visitor once, on the downstream receiver itself; neither changes the
\* wrapper, the stage or any operation, and neither delivers a signal.
C14_QueriesPassThrough ==
  [][ (answer' # answer /\ answer'.op > 0) =>
        /\ ops' = ops
        /\ stage' = stage
        /\ terminated' = terminated
        /\ IF answer'.query = "visit_continuations"
           THEN answer'.result = <<ops[answer'.op].receiver_.id>>
           ELSE answer'.result = receiver_query(answer'.query, ops[answer'.op].receiver_)
    ]_vars

\* the stop token of the second operation's receiver, asked of a started wrapper
C14_Witness ==
  /\ answer # NoAnswer
  /\ answer.op = 2
  /\ answer.query = "get_stop_token"
  /\ answer.result = <<"get_stop_token", ops[2].receiver_.id>>
  /\ ops[2].phase = "started"
  /\ ops[2].trace = <<>>

----------------------------------------------------------------------------
(* Inline execution and ordering on the wrapper *)

\* the events of a trace before position k
Before(trace, k) == SubSeq(trace, 1, k - 1)

\* C15: a started operation changes only by the predecessor's delivery
\* step, and that one step takes it straight to completed with the downstream
\* signal already delivered and, for a value, Func already invoked; there is
\* no state in which the predecessor has signalled and downstream has not
\* been signalled, for value, error and done alike.
C15_InlineDelivery ==
  [][ \A i \in 1..Len(ops) :
        /\ (ops[i].phase = "started" /\ ops'[i] # ops[i]) =>
             /\ ops'[i].phase = "completed"
             /\ ops'[i].sig.kind # "none"
             /\ Downstream(ops'[i]) # <<>>
             /\ ops'[i].sig.kind = "value" =>
                  /\ Invocations(ops'[i]) # <<>>
                  /\ ops'[i].trace[1].ev = "invoke"
             /\ ops'[i].sig.kind # "value" => Len(ops'[i].trace) = 1
        /\ ops[i].phase = "completed" => ops'[i] = ops[i]
        /\ ops'[i].phase \in {"connected", "started", "completed"}
        /\ ops'[i].phase # "completed" => ops'[i].sig.kind = "none"
    ]_vars

\* one operation completed by a forwarded done, the other by a value
C15_Witness ==
  /\ Len(ops) = 2
  /\ ops[1].phase = "completed" /\ ops[1].sig.kind = "done"
  /\ Downstream(ops[1]) = <<EvSetDone>>
  /\ ops[2].phase = "completed" /\ ops[2].sig.kind = "value"
  /\ Len(Invocations(ops[2])) = 1
  /\ Len(Downstream(ops[2])) = 1

\* C16: transform() and connect() in each ownership variant invoke nothing:
\* the new operation has an empty trace and the existing operations are left
\* alone; Start invokes nothing either; a trace grows only in the step in
\* which the predecessor signals a started wrapper.
C16_OnlyReacts ==
  [][ /\ Len(ops') >= Len(ops)
      /\ Len(ops') > Len(ops) =>
           /\ Len(ops') = Len(ops) + 1
           /\ SubSeq(ops', 1, Len(ops)) = ops
           /\ ops'[Len(ops')].trace = <<>>
           /\ ops'[Len(ops')].phase = "connected"
           /\ ops'[Len(ops')].sig.kind = "none"
           /\ terminated' = terminated
      /\ stage = NoStage => (ops = <<>> /\ ops' = <<>>)
      /\ \A i \in 1..Len(ops) :
           ops'[i].trace # ops[i].trace =>
             /\ ops[i].phase = "started"
             /\ ops[i].trace = <<>>
             /\ ops'[i].phase = "completed"
             /\ ops'[i].sig.kind # "none"
    ]_vars

\* the stage was consumed by the second connect; the first operation has
\* completed, the second is connected and nothing has run in it
C16_Witness ==
  /\ Len(ops) = 2
  /\ stage.pred_ = MovedFrom
  /\ ops[1].phase = "completed" /\ Invocations(ops[1]) # <<>>
  /\ ops[2].phase = "connected" /\ ops[2].trace = <<>>

\* C17 as claimed: in no operation does a downstream set_error follow a
\* downstream set_value, and a set_error on the value path carries the failure
\* Func raised.
C17_NoErrorAfterValue ==
  \A i \in 1..Len(ops) :
    \A k \in 1..Len(ops[i].trace) :
      (ops[i].sig.kind = "value" /\ ops[i].trace[k].ev = "set_error") =>
        /\ \A j \in 1..(k - 1) : ops[i].trace[j].ev # "set_value"
        /\ \E j \in 1..(k - 1) : ops[i].trace[j] = EvRaised(ops[i].trace[k].err)

\* C18: on the value path every downstream signal comes after Func was
\* invoked and after that invocation returned or raised, and no invocation
\* of Func is open when downstream is signalled; on each of the four branches.
C18_FuncCompletesBeforeSignal ==
  \A i \in 1..Len(ops) :
    \A k \in 1..Len(ops[i].trace) :
      (ops[i].sig.kind = "value" /\ ops[i].trace[k].ev \in DownstreamEvs) =>
        /\ Len(Filter(Before(ops[i].trace, k), {"invoke"})) = 1
        /\ Len(Filter(Before(ops[i].trace, k), {"returned", "raised"})) = 1
        /\ \E j \in 2..(k - 1) :
             /\ ops[i].trace[j].ev \in {"returned", "raised"}
             /\ ops[i].trace[j - 1].ev = "invoke"

\* a noexcept Func returning a result: its value reached downstream after it
\* had returned
C18_Witness ==
  /\ Len(ops) >= 1
  /\ ops[1].func_ = [void |-> FALSE, nothrow |-> TRUE]
  /\ ops[1].sig.kind = "value" /\ Len(ops[1].sig.vals) = 2
  /\ ops[1].trace = <<EvInvoke(ops[1].sig.vals),
                      EvReturned(<<ResultVals(ops[1].func_, ops[1].sig.vals)[1]>>),
                      EvSetValue(ResultVals(ops[1].func_, ops[1].sig.vals), FALSE)>>

----------------------------------------------------------------------------
(* Two stages chained: transform(transform(S, f), g) *)

\* a wrapper seen as the receiver of the stage before it: its set_value,
\* set_error and set_done are noexcept
AsReceiver(w) == [id |-> w.receiver_.id, throwsOnValue |-> FALSE]

\* the signal a call on the next wrapper's entry point delivers to it
SignalOf(e) ==
  IF e.ev = "set_value" THEN [kind |-> "value", vals |-> e.vals, err |-> NoErr]
  ELSE IF e.ev = "set_error" THEN [kind |-> "error", vals |-> <<>>, err |-> e.err]
  ELSE [kind |-> "done", vals |-> <<>>, err |-> NoErr]

NoSignal == [kind |-> "none", vals |-> <<>>, err |-> NoErr]

\* connect of the outer sender builds the outer wrapper around r and hands it
\* to connect of its predecessor, the inner sender, which builds the inner
\* wrapper around the outer one
Chain(o, i) ==
  [stage |-> [pred_ |-> IF o.stage.pred_ = MovedFrom THEN MovedFrom ELSE i.stage,
              func_ |-> o.stage.func_],
   op |-> [inner |-> i.op, outer |-> o.op, phase |-> "connected", sig |-> NoSignal]]

chain_connect_rvalue(s, r) ==
  LET o == connect_rvalue(s, r) IN Chain(o, connect_rvalue(s.pred_, AsReceiver(o.op)))

chain_connect_lvalue(s, r) ==
  LET o == connect_lvalue(s, r) IN Chain(o, connect_lvalue(s.pred_, AsReceiver(o.op)))

\* the predecessor signals the inner wrapper; the call the inner wrapper
\* makes on its receiver is the outer wrapper's entry point, run inside it
chain_deliver(c, sig) ==
  LET in == Deliver(c.inner, sig)
      d == Downstream(in)
  IN IF d = <<>>
     THEN [c EXCEPT !.inner = in, !.phase = "completed", !.sig = sig]
     ELSE LET out == Deliver(c.outer, SignalOf(d[1])) IN
          [c EXCEPT !.inner = [in EXCEPT !.ret = out.ret], !.outer = out,
                    !.phase = "completed", !.sig = sig]

TransformChain(S, f, g) ==
  /\ ~terminated
  /\ stage = NoStage
  /\ stage' = transform(transform(S, f), g)
  /\ types' = [error_types |-> error_types([errs |-> error_types(S)])]
  /\ UNCHANGED <<ops, answer, terminated>>

ChainConnectable == ~terminated /\ stage # NoStage /\ Connectable(stage) /\ Len(ops) < MaxOps

ChainConnectRvalue(r) == ChainConnectable /\ Connected(chain_connect_rvalue(stage, r))

ChainConnectLvalue(r) == ChainConnectable /\ Connected(chain_connect_lvalue(stage, r))

ChainCompleted(i, c) ==
  /\ ops' = [ops EXCEPT ![i] = c]
  /\ terminated' = (c.inner.ret = "terminate")
  /\ UNCHANGED <<stage, types, answer>>

ChainSetValue(i, P) ==
  /\ CanDeliver(i)
  /\ ChainCompleted(i, chain_deliver(ops[i], [kind |-> "value", vals |-> P, err |-> NoErr]))

ChainSetError(i, E) ==
  /\ CanDeliver(i)
  /\ E.shape \in Range(ops[i].inner.pred.errs)
  /\ ChainCompleted(i, chain_deliver(ops[i], [kind |-> "error", vals |-> <<>>, err |-> E]))

ChainSetDone(i) ==
  /\ CanDeliver(i)
  /\ ChainCompleted(i, chain_deliver(ops[i], [kind |-> "done", vals |-> <<>>, err |-> NoErr]))

\* predecessors of a chain: one that declares no error shape and one that
\* declares every shape
ChainPreds == {p \in Preds : Len(p.errs) # 1}

NextChain ==
  \/ \E S \in ChainPreds, f \in Funcs, g \in Funcs : TransformChain(S, f, g)
  \/ \E r \in Receivers(Len(ops) + 1) : ChainConnectRvalue(r)
  \/ \E r \in Receivers(Len(ops) + 1) : ChainConnectLvalue(r)
  \/ \E i \in 1..Len(ops) : Start(i)
  \/ \E i \in 1..Len(ops), P \in Payloads : ChainSetValue(i, P)
  \/ \E i \in 1..Len(ops), sh \in Shapes : ChainSetError(i, UpstreamError(sh))
  \/ \E i \in 1..Len(ops) : ChainSetDone(i)

SpecChain == Init /\ [][NextChain]_vars

\* C19: in a completed operation of transform(transform(S, f), g): a value P
\* on which neither f nor g fails reaches downstream as the value g(f(P)),
\* after one invocation of each, and as the only signal when the downstream
\* accepts it; when f raises, g is not invoked and downstream gets exactly one
\* signal, the error carrying f's failure; an error or done from S invokes
\* neither function and reaches downstream as the same one signal.
C19_ChainComposes ==
  \A i \in 1..Len(ops) :
    ops[i].phase = "completed" =>
      LET f == ops[i].inner.func_
          g == ops[i].outer.func_
          P == ops[i].sig.vals
          down == Downstream(ops[i].outer)
      IN /\ (ops[i].sig.kind = "value" /\ ~FuncFails(f, P)
               /\ ~FuncFails(g, ResultVals(f, P))) =>
              /\ Invocations(ops[i].inner) = <<EvInvoke(P)>>
              /\ Invocations(ops[i].outer) = <<EvInvoke(ResultVals(f, P))>>
              /\ down # <<>>
              /\ down[1].ev = "set_value"
              /\ down[1].vals = ResultVals(g, ResultVals(f, P))
              /\ ~ops[i].outer.receiver_.throwsOnValue => Len(down) = 1
         /\ (ops[i].sig.kind = "value" /\ FuncFails(f, P)) =>
              /\ Invocations(ops[i].inner) = <<EvInvoke(P)>>
              /\ Invocations(ops[i].outer) = <<>>
              /\ down = <<EvSetError(FuncThrown(f, P))>>
         /\ ops[i].sig.kind = "error" =>
              /\ Invocations(ops[i].inner) = <<>>
              /\ Invocations(ops[i].outer) = <<>>
              /\ down = <<EvSetError(ops[i].sig.err)>>
         /\ ops[i].sig.kind = "done" =>
              /\ Invocations(ops[i].inner) = <<>>
              /\ Invocations(ops[i].outer) = <<>>
              /\ down = <<EvSetDone>>

\* one chained operation delivered g(f(<<1, 1>>)) = 13 downstream, another
\* from the same stage delivered f's failure without invoking g
C19_Witness ==
  /\ Len(ops) = 2
  /\ ops[1].phase = "completed" /\ ops[1].sig.kind = "value"
  /\ ops[1].sig.vals = <<1, 1>>
  /\ Downstream(ops[1].outer) = <<EvSetValue(<<13>>, FALSE)>>
  /\ ops[2].phase = "completed" /\ ops[2].sig.kind = "value"
  /\ Invocations(ops[2].inner) # <<>>
  /\ Invocations(ops[2].outer) = <<>>
  /\ Len(Downstream(ops[2].outer)) = 1
  /\ Downstream(ops[2].outer)[1].ev = "set_error"

----------------------------------------------------------------------------
(* Two operations of one retained stage *)

\* C20 as claimed: once two operations connected from the same stage have
\* both been completed by their predecessors, in whichever order and with
\* whichever signals, each has delivered exactly one signal to its own
\* receiver and has invoked Func at most once, on its own copy and with its
\* own payload; the two wrappers have different receivers.
C20_InterleavedOperations ==
  \A i \in CompletedOps : \A j \in CompletedOps :
    i # j =>
      /\ ops[i].receiver_.id # ops[j].receiver_.id
      /\ ops[i].func_ = ops[j].func_
      /\ Len(Downstream(ops[i])) = 1
      /\ Len(Invocations(ops[i])) <= 1
      /\ \A k \in 1..Len(Invocations(ops[i])) :
           Invocations(ops[i])[k] = EvInvoke(ops[i].sig.vals)

====
